---- MODULE Spec2Model ----
(***************************************************************************)
(* Model of the AAA analysis backend: backend/server.py (module startup    *)
(* and the POST /analyze handler analyze_code) and backend/aaa_analyzer.py *)
(* (class AAAAnalyzer).                                                    *)
(*                                                                         *)
(* Text is a sequence of string chunks; concatenation of text is \o.  An   *)
(* f-string is the concatenation of its literal chunks and its fields.     *)
(* The two emoji of server.py are written (cross mark) and (check mark).   *)
(***************************************************************************)
EXTENDS Naturals, Sequences, FiniteSets

\* Number of requests sent to POST /analyze in one run of the process.
MaxRequests == 2

Requests == 1..MaxRequests

\* Python's None.
None == "None"

\* A text local that is not bound yet.
Unbound == <<"(unbound)">>

(***************************************************************************)
(* Python exception classes: the classes an instance of each is caught as. *)
(***************************************************************************)
Bases(exc) ==
    CASE exc = "SyntaxError"        -> {"SyntaxError", "Exception"}
      [] exc = "IndentationError"   -> {"IndentationError", "SyntaxError", "Exception"}
      [] exc = "UnicodeEncodeError" -> {"UnicodeEncodeError", "UnicodeError", "ValueError", "Exception"}
      [] exc = "RecursionError"     -> {"RecursionError", "RuntimeError", "Exception"}
      [] exc = "DeadlineExceeded"   -> {"DeadlineExceeded", "GoogleAPICallError", "Exception"}
      [] exc = "PermissionDenied"   -> {"PermissionDenied", "GoogleAPICallError", "Exception"}
      [] exc = "ValueError"         -> {"ValueError", "Exception"}
      [] OTHER                      -> {}

\* except cls: catches exc
Catches(cls, exc) == cls \in Bases(exc)

(***************************************************************************)
(* Request bodies (CodeSnippet.code).                                      *)
(***************************************************************************)
GoodTest    == <<"def test_add():", "\n", "    assert add(1,2)==3">>
AssertCall  == <<"assert f()">>
Malformed   == <<"def test(:">>
BadIndent   == <<"def f():", "\n", "return 1">>
Surrogate   == <<"x = '(U+D800)'">>
DeepSum     == <<"x = ", "1+1+ ... +1 (1500 terms)">>
DeeperSum   == <<"x = ", "1+1+ ... +1 (3000 terms)">>

Sources == {GoodTest, AssertCall, Malformed, BadIndent, Surrogate, DeepSum, DeeperSum}

\* ast.parse(code): the exception it raises, or the tree (named by its source).
AstParse(code) ==
    CASE code = Malformed -> [exc |-> "SyntaxError", tree |-> Unbound]
      [] code = BadIndent -> [exc |-> "IndentationError", tree |-> Unbound]
      [] code = Surrogate -> [exc |-> "UnicodeEncodeError", tree |-> Unbound]
      [] code = DeeperSum -> [exc |-> "RecursionError", tree |-> Unbound]
      [] OTHER            -> [exc |-> None, tree |-> <<"Module">> \o code]

\* ast.dump(tree, indent=2): the exception it raises, or the dump.
AstDump(tree) ==
    CASE tree = <<"Module">> \o DeepSum ->
            [exc |-> "RecursionError", text |-> Unbound]
      [] tree = <<"Module">> \o AssertCall ->
            [exc |-> None, text |->
                <<"Module(", "\n", "  body=[", "\n", "    Assert(", "\n",
                  "      test=Call(", "\n",
                  "        func=Name(id='f', ctx=Load()),", "\n",
                  "        args=[],", "\n", "        keywords=[]))],", "\n",
                  "  type_ignores=[])">>]
      [] tree = <<"Module">> \o GoodTest ->
            [exc |-> None, text |->
                <<"Module(", "\n", "  body=[", "\n", "    FunctionDef(", "\n",
                  "      name='test_add',", "\n",
                  "      args=arguments( ... ),", "\n",
                  "      body=[", "\n", "        Assert(", "\n",
                  "          test=Compare( ... ))],", "\n",
                  "      decorator_list=[])],", "\n",
                  "  type_ignores=[])">>]
      [] OTHER -> [exc |-> "RecursionError", text |-> Unbound]

(***************************************************************************)
(* aaa_analyzer.py                                                         *)
(***************************************************************************)
SYSTEM_PROMPT ==
    <<"You are an expert software testing analyzer ...",
      "## AAA Pattern Definition", "## Special AAA Cases (Acceptable Deviations)",
      "## AAA Issues to Detect", "## Input Format", "## Output Format">>

\* Python truthiness of an Optional[str]: not k
IsFalsy(k) == k = None \/ k = ""

NoModel == [model_name |-> None, system_instruction |-> Unbound]

\* AAAAnalyzer.__init__ without its credential check.
AAAAnalyzerInitUnchecked(k, model_name) ==
    [raised |-> None, genai_key |-> k,
     model |-> [model_name |-> model_name, system_instruction |-> SYSTEM_PROMPT]]

\* AAAAnalyzer.__init__(api_key, model_name): what it raises, the key given to
\* genai.configure, and self.model.
AAAAnalyzerInit(k, model_name) ==
    IF IsFalsy(k)
    THEN [raised |-> "ValueError: API Key is required for AAAAnalyzer",
          genai_key |-> None, model |-> NoModel]
    ELSE [raised |-> None, genai_key |-> k,
          model |-> [model_name |-> model_name, system_instruction |-> SYSTEM_PROMPT]]

(***************************************************************************)
(* What the remote backend does with one generate_content call.            *)
(***************************************************************************)
GoodAAA == <<"<analysis>", "<issueType>", "Good AAA", "</issueType>", "</analysis>">>
MissingAssert ==
    <<"<analysis>", "<focal_method>", "save", "</focal_method>",
      "<issueType>", "Missing Assert", "</issueType>",
      "<reasoning>", "No assert after the act.", "</reasoning>", "</analysis>">>

NoOutcome == [kind |-> "(none)", text |-> Unbound, exc |-> None, msg |-> ""]

OracleOutcomes ==
    { [kind |-> "text", text |-> GoodAAA, exc |-> None, msg |-> ""],
      [kind |-> "text", text |-> MissingAssert, exc |-> None, msg |-> ""],
      [kind |-> "generate_content raises", text |-> Unbound,
       exc |-> "DeadlineExceeded", msg |-> "504 Deadline Exceeded"],
      [kind |-> "generate_content raises", text |-> Unbound,
       exc |-> "PermissionDenied", msg |-> "403 API key not valid"],
      [kind |-> "response.text raises", text |-> Unbound,
       exc |-> "ValueError", msg |-> "response.text requires a valid Part"] }

Failed(o) == o.kind \in {"generate_content raises", "response.text raises"}

NoResult == [raised |-> None, msg |-> "", value |-> Unbound]

\* AAAAnalyzer.analyze without its try/except.
AnalyzePropagates(formatted_test_case, o) ==
    IF o.kind = "text"
    THEN [raised |-> None, msg |-> "", value |-> o.text]
    ELSE [raised |-> o.exc, msg |-> o.msg, value |-> Unbound]

\* AAAAnalyzer.analyze(formatted_test_case), the backend doing o: what it
\* raises, or the text it returns.
Analyze(formatted_test_case, o) ==
    IF o.kind = "text"
    THEN [raised |-> None, msg |-> "", value |-> o.text]
    ELSE IF Catches("Exception", o.exc)
    THEN [raised |-> None, msg |-> "",
          value |-> <<"<analysis>", "<error>", "Gemini API Failed: ", o.msg,
                      "</error>", "</analysis>">>]
    ELSE [raised |-> o.exc, msg |-> o.msg, value |-> Unbound]

\* self.model after generate_content, with a chat-style history kept in it.
ModelAfterCallHistory(model, contents) ==
    [model EXCEPT !.system_instruction = @ \o contents]

\* self.model after analyze: analyze assigns nothing to self.
ModelAfterCall(model, contents) == model

(***************************************************************************)
(* server.py                                                               *)
(***************************************************************************)
Credentials == {None, "", "AIza-key"}

SyntaxErrorMessage      == "(cross mark) Syntax Error"
AnalysisCompleteMessage == "(check mark) Analysis Complete"
AnalysisFailedMessage   == "(cross mark) Analysis Failed"

NoReport == [message |-> "(none)", analysis_result |-> Unbound]

SyntaxErrorReport ==
    [message |-> SyntaxErrorMessage,
     analysis_result |-> <<"<analysis>", "<error>", "Invalid Python Code",
                           "</error>", "</analysis>">>]

\* The f-string formatted_input.
FormattedInput(code, ast_string) ==
    <<"\n    ", "<test_code>", "\n    ">> \o code \o
    <<"\n    ", "</test_code>", "\n\n    ", "<ast>", "\n    ">> \o ast_string \o
    <<"\n    ", "</ast>", "\n    \n    ", "<", "<production_code>", "\n    ",
      "# Not provided in this context", "\n    ", "</production_code>", "\n    ">>

VARIABLES
    entry,            \* "server": python server.py; "direct": AAAAnalyzer(api_key)
    api_key,          \* the credential (GEMINI_API_KEY, or the argument)
    startup,          \* "init", "serving", "constructed", "crashed"
    startup_error,    \* what startup raised
    genai_key,        \* the key given to genai.configure
    model,            \* analyzer.model
    pc,               \* per request: where analyze_code is
    code,             \* per request: snippet.code
    ast_string,       \* per request: local ast_string
    formatted_input,  \* per request: local formatted_input
    outcome,          \* per request: what the backend did with its call
    result,           \* per request: what analyzer.analyze returned or raised
    report,           \* per request: the dict analyze_code returned
    raised,           \* per request: the exception that left analyze_code
    calls             \* the generate_content calls made, in order

vars == <<entry, api_key, startup, startup_error, genai_key, model, pc, code,
          ast_string, formatted_input, outcome, result, report, raised, calls>>

reqvars == <<pc, code, ast_string, formatted_input, outcome, result, report,
             raised, calls>>

startvars == <<entry, api_key, startup, startup_error, genai_key>>

Init ==
    /\ entry \in {"server", "direct"}
    /\ api_key \in Credentials
    /\ startup = "init"
    /\ startup_error = None
    /\ genai_key = None
    /\ model = NoModel
    /\ pc = [r \in Requests |-> "idle"]
    /\ code = [r \in Requests |-> Unbound]
    /\ ast_string = [r \in Requests |-> Unbound]
    /\ formatted_input = [r \in Requests |-> Unbound]
    /\ outcome = [r \in Requests |-> NoOutcome]
    /\ result = [r \in Requests |-> NoResult]
    /\ report = [r \in Requests |-> NoReport]
    /\ raised = [r \in Requests |-> None]
    /\ calls = <<>>

\* server.py, module level: load the key, refuse to start without it,
\* construct the analyzer, create the app.
ServerStartup ==
    /\ entry = "server"
    /\ startup = "init"
    /\ IF IsFalsy(api_key)
       THEN /\ startup' = "crashed"
            /\ startup_error' = "ValueError: No API Key found! Check your .env file."
            /\ UNCHANGED <<genai_key, model>>
       ELSE LET a == AAAAnalyzerInit(api_key, "gemini-3-flash-preview") IN
            /\ startup' = IF a.raised = None THEN "serving" ELSE "crashed"
            /\ startup_error' = a.raised
            /\ genai_key' = a.genai_key
            /\ model' = a.model
    /\ UNCHANGED <<entry, api_key>>
    /\ UNCHANGED reqvars

\* AAAAnalyzer(api_key=k) constructed by a caller of the class.
DirectConstruct ==
    /\ entry = "direct"
    /\ startup = "init"
    /\ LET a == AAAAnalyzerInit(api_key, "gemini-1.5-flash") IN
        /\ startup' = IF a.raised = None THEN "constructed" ELSE "crashed"
        /\ startup_error' = a.raised
        /\ genai_key' = a.genai_key
        /\ model' = a.model
    /\ UNCHANGED <<entry, api_key>>
    /\ UNCHANGED reqvars

\* POST /analyze arrives with body {code: s}; analyze_code starts.
Receive(r, s) ==
    /\ startup = "serving"
    /\ pc[r] = "idle"
    /\ pc' = [pc EXCEPT ![r] = "Parsing"]
    /\ code' = [code EXCEPT ![r] = s]
    /\ UNCHANGED <<ast_string, formatted_input, outcome, result, report, raised, calls>>
    /\ UNCHANGED <<startvars, model>>

\* analyze_code step 1 with the early return on SyntaxError dropped.
ExtractFallsThrough(r) ==
    /\ pc[r] = "Parsing"
    /\ LET p == AstParse(code[r])
           d == IF p.exc = None THEN AstDump(p.tree) ELSE [exc |-> p.exc, text |-> Unbound]
       IN  IF d.exc = None
           THEN /\ ast_string' = [ast_string EXCEPT ![r] = d.text]
                /\ pc' = [pc EXCEPT ![r] = "Building"]
                /\ UNCHANGED <<report, raised>>
           ELSE IF Catches("SyntaxError", d.exc)
           THEN /\ report' = [report EXCEPT ![r] = SyntaxErrorReport]
                /\ pc' = [pc EXCEPT ![r] = "Building"]
                /\ UNCHANGED <<ast_string, raised>>
           ELSE /\ raised' = [raised EXCEPT ![r] = d.exc]
                /\ pc' = [pc EXCEPT ![r] = "Unhandled"]
                /\ UNCHANGED <<ast_string, report>>
    /\ UNCHANGED <<code, formatted_input, outcome, result, calls>>
    /\ UNCHANGED <<startvars, model>>

\* analyze_code step 1: try: ast.parse, ast.dump; except SyntaxError: return.
Extract(r) ==
    /\ pc[r] = "Parsing"
    /\ LET p == AstParse(code[r])
           d == IF p.exc = None THEN AstDump(p.tree) ELSE [exc |-> p.exc, text |-> Unbound]
       IN  IF d.exc = None
           THEN /\ ast_string' = [ast_string EXCEPT ![r] = d.text]
                /\ pc' = [pc EXCEPT ![r] = "Building"]
                /\ UNCHANGED <<report, raised>>
           ELSE IF Catches("SyntaxError", d.exc)
           THEN /\ report' = [report EXCEPT ![r] = SyntaxErrorReport]
                /\ pc' = [pc EXCEPT ![r] = "Done"]
                /\ UNCHANGED <<ast_string, raised>>
           ELSE /\ raised' = [raised EXCEPT ![r] = d.exc]
                /\ pc' = [pc EXCEPT ![r] = "Unhandled"]
                /\ UNCHANGED <<ast_string, report>>
    /\ UNCHANGED <<code, formatted_input, outcome, result, calls>>
    /\ UNCHANGED <<startvars, model>>

\* The envelope of request r built from a module-level ast_string shared by
\* the requests.
EnvelopeOfShared(r) ==
    LET have == {q \in Requests : ast_string[q] # Unbound}
    IN  FormattedInput(code[r], ast_string[CHOOSE q \in have : TRUE])

\* The envelope of request r: built from its own locals.
EnvelopeOf(r) == FormattedInput(code[r], ast_string[r])

\* analyze_code step 2: formatted_input = f"""..."""
Build(r) ==
    /\ pc[r] = "Building"
    /\ formatted_input' = [formatted_input EXCEPT ![r] = EnvelopeOf(r)]
    /\ pc' = [pc EXCEPT ![r] = "Calling"]
    /\ UNCHANGED <<code, ast_string, outcome, result, report, raised, calls>>
    /\ UNCHANGED <<startvars, model>>

\* analyze_code step 3 returning a reworded result.
HandlerReportReworded(res) ==
    IF res.raised = None
    THEN [message |-> AnalysisCompleteMessage,
          analysis_result |-> <<"Result: ">> \o res.value]
    ELSE [message |-> AnalysisFailedMessage,
          analysis_result |-> <<"Error: ", res.msg>>]

\* analyze_code step 3: the dict returned after analyzer.analyze returned or
\* raised an Exception.
HandlerReport(res) ==
    IF res.raised = None
    THEN [message |-> AnalysisCompleteMessage, analysis_result |-> res.value]
    ELSE [message |-> AnalysisFailedMessage,
          analysis_result |-> <<"Error: ", res.msg>>]

\* Where analyze_code goes after a call, when it retries a failed call.
AfterCallRetry(o) == IF Failed(o) THEN "Calling" ELSE "Done"

\* Where analyze_code goes after a call: it returns.
AfterCall(o) == "Done"

\* analyze_code step 3: analyzer.analyze(formatted_input), one
\* generate_content call on which the backend does o, and the return.
\* (The cap on the length of calls keeps the log finite; one call per
\* request never reaches it.)
Call(r, o) ==
    /\ pc[r] = "Calling"
    /\ Len(calls) < 2 * MaxRequests
    /\ calls' = Append(calls, [req |-> r, contents |-> formatted_input[r],
                               model_name |-> model.model_name,
                               system_instruction |-> model.system_instruction])
    /\ model' = ModelAfterCall(model, formatted_input[r])
    /\ outcome' = [outcome EXCEPT ![r] = o]
    /\ LET res == Analyze(formatted_input[r], o) IN
        /\ result' = [result EXCEPT ![r] = res]
        /\ IF res.raised = None \/ Catches("Exception", res.raised)
           THEN /\ report' = [report EXCEPT ![r] = HandlerReport(res)]
                /\ pc' = [pc EXCEPT ![r] = AfterCall(o)]
                /\ UNCHANGED raised
           ELSE /\ raised' = [raised EXCEPT ![r] = res.raised]
                /\ pc' = [pc EXCEPT ![r] = "Unhandled"]
                /\ UNCHANGED report
    /\ UNCHANGED <<code, ast_string, formatted_input>>
    /\ UNCHANGED startvars

Next ==
    \/ ServerStartup
    \/ DirectConstruct
    \/ \E r \in Requests, s \in Sources : Receive(r, s)
    \/ \E r \in Requests : Extract(r)
    \/ \E r \in Requests : Build(r)
    \/ \E r \in Requests, o \in OracleOutcomes : Call(r, o)

Spec == Init /\ [][Next]_vars


(***************************************************************************)
(* Vocabulary of the properties.                                           *)
(***************************************************************************)
\* The generate_content calls made for request r.
NCalls(r) == Cardinality({i \in 1..Len(calls) : calls[i].req = r})

\* Text sub occurs in text t, chunk for chunk.
Contains(t, sub) ==
    \E i \in 1..(Len(t) + 1 - Len(sub)) : SubSeq(t, i, i + Len(sub) - 1) = sub

WhiteSpace == {"\n", "\n    ", "\n\n    ", "\n    \n    "}

IsInk(chunk) == chunk \notin WhiteSpace

\* Text t without its whitespace chunks.
NonWS(t) == SelectSeq(t, IsInk)

\* ast.parse(s) raises SyntaxError (or a subclass of it).
SyntaxInvalid(s) == "SyntaxError" \in Bases(AstParse(s).exc)

\* Extraction of s succeeds: ast.parse and ast.dump both return.
Extractable(s) == AstParse(s).exc = None /\ AstDump(AstParse(s).tree).exc = None

\* The structural dump of an extractable s.
DumpOf(s) == AstDump(AstParse(s).tree).text

\* Text t is <analysis><error>...</error></analysis> carrying description msg.
IsErrorBody(t, msg) ==
    /\ Len(t) >= 5
    /\ t[1] = "<analysis>" /\ t[2] = "<error>"
    /\ t[Len(t) - 1] = "</error>" /\ t[Len(t)] = "</analysis>"
    /\ \E i \in 3..(Len(t) - 2) : t[i] = msg

\* analyze_code has ended for request r, by a return or by an exception.
Ended(r) == pc[r] \in {"Done", "Unhandled"}

(***************************************************************************)
(* C1. A request whose source raises SyntaxError in ast.parse ends with    *)
(* the Syntax Error report and the fixed error body; no envelope is built  *)
(* for it and no call to the oracle is made for it.                        *)
(***************************************************************************)
C1_SyntaxErrorShortCircuits ==
    \A r \in Requests :
        (pc[r] \notin {"idle", "Parsing"} /\ SyntaxInvalid(code[r])) =>
            /\ pc[r] = "Done"
            /\ report[r] = [message |-> "(cross mark) Syntax Error",
                            analysis_result |->
                                <<"<analysis>", "<error>", "Invalid Python Code",
                                  "</error>", "</analysis>">>]
            /\ formatted_input[r] = Unbound
            /\ NCalls(r) = 0
            /\ raised[r] = None

C1_Witness ==
    \E r, q \in Requests :
        /\ pc[r] = "Done" /\ code[r] = Malformed
        /\ pc[q] = "Done" /\ code[q] = BadIndent

(***************************************************************************)
(* C2. When generate_content raises, or reading response.text raises,      *)
(* analyze raises nothing and returns <analysis><error>...</error>         *)
(* </analysis> carrying the description of the failure.                    *)
(***************************************************************************)
C2_AnalyzeNormalizesFailure ==
    \A r \in Requests :
        Failed(outcome[r]) =>
            /\ result[r].raised = None
            /\ IsErrorBody(result[r].value, outcome[r].msg)
            /\ raised[r] = None

C2_Witness ==
    \E r, q \in Requests :
        /\ outcome[r].kind = "generate_content raises" /\ result[r] # NoResult
        /\ outcome[q].kind = "response.text raises" /\ result[q] # NoResult

(***************************************************************************)
(* C3. A request with a valid source whose remote call fails is reported   *)
(* as Analysis Failed, not Analysis Complete; of the three outcome tags    *)
(* exactly the one that matches what happened is set.                      *)
(***************************************************************************)
C3_OracleFailureIsTagged ==
    \A r \in Requests :
        pc[r] = "Done" =>
            /\ (report[r].message = "(cross mark) Syntax Error")
                   <=> SyntaxInvalid(code[r])
            /\ (report[r].message = "(cross mark) Analysis Failed")
                   <=> Failed(outcome[r])
            /\ (report[r].message = "(check mark) Analysis Complete")
                   <=> (outcome[r].kind = "text")

(***************************************************************************)
(* C4. Every request ends with a returned report: no exception of          *)
(* extraction, building or the oracle call leaves analyze_code.            *)
(***************************************************************************)
C4_EveryRequestReturnsAReport ==
    \A r \in Requests :
        /\ pc[r] # "Unhandled"
        /\ raised[r] = None
        /\ (pc[r] = "Done" => report[r] # NoReport)

(***************************************************************************)
(* C5. When analyze returns a text t, the report is Analysis Complete and  *)
(* its result is t itself, a classification or an error body alike.        *)
(***************************************************************************)
C5_ResultPassedThrough ==
    \A r \in Requests :
        (result[r] # NoResult /\ result[r].raised = None) =>
            /\ pc[r] = "Done"
            /\ report[r] = [message |-> "(check mark) Analysis Complete",
                            analysis_result |-> result[r].value]

C5_Witness ==
    \E r, q \in Requests :
        /\ pc[r] = "Done" /\ outcome[r].kind = "text" /\ report[r].analysis_result = GoodAAA
        /\ pc[q] = "Done" /\ Failed(outcome[q])
        /\ IsErrorBody(report[q].analysis_result, outcome[q].msg)

(***************************************************************************)
(* C6. The envelope passed to the oracle is the fixed template: the        *)
(* sections test_code, ast, production_code in this order, each opened by  *)
(* <name> and closed by </name>, nothing else but the source, the dump     *)
(* and the placeholder between them, the source and the dump verbatim.     *)
(***************************************************************************)
C6_EnvelopeIsTheTemplate ==
    \A i \in 1..Len(calls) :
        LET s == code[calls[i].req]
            e == calls[i].contents
        IN  /\ NonWS(e) =
                   <<"<test_code>">> \o NonWS(s) \o <<"</test_code>", "<ast>">>
                   \o NonWS(DumpOf(s)) \o
                   <<"</ast>", "<production_code>", "# Not provided in this context",
                     "</production_code>">>
            /\ Contains(e, s)
            /\ Contains(e, DumpOf(s))

(***************************************************************************)
(* C7. With an empty or absent credential construction raises before       *)
(* genai.configure is called and before a model is created; no request is  *)
(* ever received and no oracle call is ever made.                          *)
(***************************************************************************)
C7_NoCredentialNoClient ==
    api_key \in {"None", ""} =>
        /\ genai_key = "None"
        /\ model.system_instruction = Unbound
        /\ startup \in {"init", "crashed"}
        /\ (startup = "crashed" => startup_error # "None")
        /\ calls = <<>>
        /\ \A r \in Requests : pc[r] = "idle"

C7_Witness ==
    /\ entry = "direct" /\ api_key = "" /\ startup = "crashed"
    /\ startup_error = "ValueError: API Key is required for AAAAnalyzer"

(***************************************************************************)
(* C8. Every generate_content call is made by the model created at         *)
(* construction, with the system instruction SYSTEM_PROMPT unchanged; the  *)
(* calling request's envelope is the only thing that varies.               *)
(***************************************************************************)
C8_ContractNeverChanges ==
    /\ startup \in {"serving", "constructed"} =>
           model.system_instruction = SYSTEM_PROMPT
    /\ \A i \in 1..Len(calls) :
           /\ calls[i].system_instruction = SYSTEM_PROMPT
           /\ calls[i].system_instruction = calls[1].system_instruction
           /\ calls[i].model_name = calls[1].model_name
           /\ calls[i].contents = formatted_input[calls[i].req]

C8_Witness ==
    /\ Len(calls) = 2
    /\ Failed(outcome[calls[1].req])
    /\ outcome[calls[2].req].kind = "text"
    /\ pc[calls[2].req] = "Done"

(***************************************************************************)
(* C9. A request makes at most one oracle call, and only after its         *)
(* extraction succeeded; a request that ended after a successful           *)
(* extraction made exactly one; a failed call ends the request at once.    *)
(***************************************************************************)
C9_AtMostOneCallNoRetry ==
    \A r \in Requests :
        /\ NCalls(r) <= 1
        /\ (NCalls(r) = 1 => Extractable(code[r]) /\ ast_string[r] = DumpOf(code[r]))
        /\ ((pc[r] = "Done" /\ Extractable(code[r])) => NCalls(r) = 1)
        /\ (Failed(outcome[r]) =>
                pc[r] = "Done" /\ report[r] # NoReport /\ NCalls(r) = 1)

C9_Witness ==
    \E r, q \in Requests :
        /\ Failed(outcome[r]) /\ pc[r] = "Done" /\ NCalls(r) = 1
        /\ pc[q] = "Done" /\ SyntaxInvalid(code[q]) /\ NCalls(q) = 0

(***************************************************************************)
(* C10. Under any interleaving of the requests: the envelope sent for a    *)
(* request holds its own source and the dump of its own source and no      *)
(* other request's; two ended requests with the same source and the same   *)
(* oracle response ended the same way, whatever happened to the others.    *)
(***************************************************************************)
C10_RequestsIndependent ==
    /\ \A i \in 1..Len(calls) :
           LET r == calls[i].req
               e == calls[i].contents
           IN  /\ Contains(e, code[r])
               /\ Contains(e, DumpOf(code[r]))
               /\ \A q \in Requests :
                      (code[q] # Unbound /\ code[q] # code[r]) =>
                          /\ ~Contains(e, code[q])
                          /\ (Extractable(code[q]) => ~Contains(e, DumpOf(code[q])))
    /\ \A r, q \in Requests :
           (Ended(r) /\ Ended(q) /\ code[r] = code[q] /\ outcome[r] = outcome[q]) =>
               /\ pc[r] = pc[q]
               /\ report[r] = report[q]
               /\ raised[r] = raised[q]
               /\ formatted_input[r] = formatted_input[q]

C10_Witness ==
    \E r, q \in Requests :
        /\ r # q /\ code[r] # code[q]
        /\ Len(calls) = 2 /\ calls[1].req = r /\ calls[2].req = q
        /\ Failed(outcome[r]) /\ pc[r] = "Done"
        /\ pc[q] = "Done" /\ outcome[q].kind = "text"
        /\ report[q].analysis_result = outcome[q].text

====
